---- MODULE Spec2Model ----
(***************************************************************************)
(* Migration v2.4.0 (multi-ingestion path fields of the knowledge table):  *)
(* the four entry points up / async_up / down / async_down, the per-dialect*)
(* executors they dispatch to, and the table they act on.                  *)
(*                                                                         *)
(* The database is one physical table: whether it exists, its column set,  *)
(* its indexes (name, column) and the source_type value of each row.  One  *)
(* entry-point call is one action; inside it the executor's statements are *)
(* run in order against the session's view of the table, any one of them   *)
(* may fail, and the `with sess.begin()` block commits or rolls back.      *)
(***************************************************************************)
EXTENDS Integers, Sequences, FiniteSets, TLC

VARIABLES
    kind,   \* type(db).__name__ of the handle the caller holds
    db,     \* the committed state of the table
    last,   \* the most recent entry-point call: its inputs, log and outcome
    oob,    \* number of changes made to the table by others than the migration
    trip,   \* the apply / revert / apply scenario: schemas after each stage
    race    \* the racing applies: who holds the table's lock, and each
            \* invocation's position, session and outcome

vars == <<kind, db, last, oob, trip, race>>

----------------------------------------------------------------------------
(* Bounds of the model *)

MaxRows == 1
MaxOob == 1

----------------------------------------------------------------------------
(* Module-level constants of v2_4_0.py *)

\* Mutant of KNOWLEDGE_COLUMNS: a list that also names a column the table had
\* before this revision
KNOWLEDGE_COLUMNS_WithName ==
    << <<"name", "VARCHAR(255)">>,
       <<"original_path", "TEXT">>,
       <<"storage_path", "TEXT">>,
       <<"relative_path", "TEXT">>,
       <<"root_id", "VARCHAR(255)">>,
       <<"root_path", "TEXT">>,
       <<"root_label", "VARCHAR(255)">>,
       <<"source_type", "VARCHAR(50)">>,
       <<"parent_folder", "VARCHAR(255)">>,
       <<"link_status", "VARCHAR(50)">>,
       <<"link_checked_at", "BIGINT">>,
       <<"upload_batch_id", "VARCHAR(255)">> >>

KNOWLEDGE_COLUMNS ==
    << <<"original_path", "TEXT">>,
       <<"storage_path", "TEXT">>,
       <<"relative_path", "TEXT">>,
       <<"root_id", "VARCHAR(255)">>,
       <<"root_path", "TEXT">>,
       <<"root_label", "VARCHAR(255)">>,
       <<"source_type", "VARCHAR(50)">>,
       <<"parent_folder", "VARCHAR(255)">>,
       <<"link_status", "VARCHAR(50)">>,
       <<"link_checked_at", "BIGINT">>,
       <<"upload_batch_id", "VARCHAR(255)">> >>

INDEXED_COLUMNS == <<"source_type", "upload_batch_id", "root_id", "root_path">>

\* index_name = f"idx_{table_name}_{col_name}"
index_name(table_name, col_name) == "idx_" \o table_name \o "_" \o col_name

\* The names of KNOWLEDGE_COLUMNS, and the first k of them
ColumnNames == {KNOWLEDGE_COLUMNS[i][1] : i \in 1..Len(KNOWLEDGE_COLUMNS)}

ColumnPrefix(k) == {KNOWLEDGE_COLUMNS[i][1] : i \in 1..k}

IndexedColumnSet == {INDEXED_COLUMNS[i] : i \in 1..Len(INDEXED_COLUMNS)}

IndexNames(table_name) == {index_name(table_name, c) : c \in IndexedColumnSet}

\* Fields of KnowledgeRow that precede the multi-ingestion path fields
BaseColumns ==
    {"id", "name", "description", "metadata", "type", "size", "linked_to",
     "access_count", "status", "status_message", "created_at", "updated_at",
     "external_id"}

\* The multi-ingestion path fields of KnowledgeRow
PathFields ==
    {"original_path", "storage_path", "relative_path", "root_id", "root_path",
     "root_label", "source_type", "link_status", "link_checked_at",
     "upload_batch_id"}

\* Every declared field of KnowledgeRow
KnowledgeRowFields == BaseColumns \cup PathFields

\* source_type tags of KnowledgeRow; NULL is the SQL NULL, NoColumn the value
\* of a row of a table that has no source_type column
NULL == "NULL"

NoColumn == "no source_type column"

SourceTypes == {"local_file"}

----------------------------------------------------------------------------
(* Callers' inputs *)

SyncKinds == {"PostgresDb", "MySQLDb", "SqliteDb", "SingleStoreDb"}

AsyncKinds == {"AsyncPostgresDb", "AsyncSqliteDb"}

DocumentKinds == {"MongoDb"}

DbKinds == SyncKinds \cup AsyncKinds \cup DocumentKinds

TableTypes == {"knowledge", "sessions"}

TableName == "knowledge_contents"

----------------------------------------------------------------------------
(* The statements the executors hand to sess.execute, and what each does   *)
(* to the table the session sees.                                          *)

TableExistsQuery(table_name) == <<"SELECT EXISTS TABLE", table_name>>

ColumnsQuery(table_name) == <<"SELECT COLUMNS", table_name>>

IndexExistsQuery(table_name, idx) == <<"SELECT EXISTS INDEX", table_name, idx>>

AddColumn(table_name, col_name, col_type) ==
    <<"ALTER TABLE ADD COLUMN", table_name, col_name, col_type>>

CreateIndexIfNotExists(table_name, idx, col_name) ==
    <<"CREATE INDEX IF NOT EXISTS", table_name, idx, col_name>>

AddIndex(table_name, idx, col_name) ==
    <<"ALTER TABLE ADD INDEX", table_name, idx, col_name>>

BackfillUpdate(table_name) ==
    <<"UPDATE SET source_type = 'legacy' WHERE source_type IS NULL", table_name>>

DropIndexIfExists(idx) == <<"DROP INDEX IF EXISTS", idx>>

DropIndex(table_name, idx) == <<"ALTER TABLE DROP INDEX", table_name, idx>>

DropColumnIfExists(table_name, col_name) ==
    <<"ALTER TABLE DROP COLUMN IF EXISTS", table_name, col_name>>

Queries == {"SELECT EXISTS TABLE", "SELECT COLUMNS", "SELECT EXISTS INDEX"}

IsStatement(e) == e[1] \notin {"BEGIN", "COMMIT", "ROLLBACK", "log_error"}

HasIndex(d, idx) == \E i \in d.idx : i[1] = idx

\* Mutant of BackfillRow: the UPDATE without its WHERE clause
BackfillRow_NoWhere(v) == "legacy"

\* SET source_type = 'legacy' WHERE source_type IS NULL, on one row
BackfillRow(v) == IF v = NULL THEN "legacy" ELSE v

Ok(d) == [err |-> FALSE, db |-> d]

Err(d) == [err |-> TRUE, db |-> d]

Run(stmt, d) ==
    CASE stmt[1] \in Queries -> Ok(d)
      [] ~d.exists -> Err(d)
      [] stmt[1] = "ALTER TABLE ADD COLUMN" ->
            IF stmt[3] \in d.cols THEN Err(d)
            ELSE Ok([d EXCEPT !.cols = @ \cup {stmt[3]},
                              !.rows = IF stmt[3] = "source_type"
                                       THEN [i \in 1..Len(@) |-> NULL] ELSE @])
      [] stmt[1] = "CREATE INDEX IF NOT EXISTS" ->
            IF stmt[4] \notin d.cols THEN Err(d)
            ELSE IF HasIndex(d, stmt[3]) THEN Ok(d)
            ELSE Ok([d EXCEPT !.idx = @ \cup {<<stmt[3], stmt[4]>>}])
      [] stmt[1] = "ALTER TABLE ADD INDEX" ->
            IF stmt[4] \notin d.cols \/ HasIndex(d, stmt[3]) THEN Err(d)
            ELSE Ok([d EXCEPT !.idx = @ \cup {<<stmt[3], stmt[4]>>}])
      [] stmt[1] = "UPDATE SET source_type = 'legacy' WHERE source_type IS NULL" ->
            IF "source_type" \notin d.cols THEN Err(d)
            ELSE Ok([d EXCEPT !.rows = [i \in 1..Len(@) |-> BackfillRow(@[i])]])
      [] stmt[1] = "DROP INDEX IF EXISTS" ->
            Ok([d EXCEPT !.idx = {i \in @ : i[1] # stmt[2]}])
      [] stmt[1] = "ALTER TABLE DROP INDEX" ->
            IF ~HasIndex(d, stmt[3]) THEN Err(d)
            ELSE Ok([d EXCEPT !.idx = {i \in @ : i[1] # stmt[3]}])
      [] stmt[1] = "ALTER TABLE DROP COLUMN IF EXISTS" ->
            IF stmt[3] \notin d.cols THEN Ok(d)
            ELSE Ok([d EXCEPT !.cols = @ \ {stmt[3]},
                              !.idx = {i \in @ : i[2] # stmt[3]},
                              !.rows = IF stmt[3] = "source_type"
                                       THEN [i \in 1..Len(@) |-> NoColumn] ELSE @])

----------------------------------------------------------------------------
(* The session: `with db.Session() as sess, sess.begin()`                  *)

\* fail is the position of the statement of this invocation that fails
\* (0: none does); sql_error tells whether the statement that failed is one
\* the table's state makes the engine reject
Begin(d, fail) ==
    [db |-> d, pre |-> d, log |-> << <<"BEGIN">> >>, n |-> 0, fail |-> fail,
     ok |-> TRUE, committed |-> FALSE, applied_changes |-> FALSE,
     sql_error |-> FALSE]

\* sess.execute(text(...)): skipped once an exception is propagating
Execute(s, stmt) ==
    IF ~s.ok THEN s
    ELSE LET r == Run(stmt, s.db)
         IN IF s.n + 1 = s.fail \/ r.err
            THEN [s EXCEPT !.ok = FALSE, !.n = @ + 1, !.log = Append(@, stmt),
                           !.sql_error = r.err]
            ELSE [s EXCEPT !.db = r.db, !.n = @ + 1, !.log = Append(@, stmt)]

\* applied_changes = True, reached only when the statement before it returned
SetApplied(s) == IF s.ok THEN [s EXCEPT !.applied_changes = TRUE] ELSE s

\* sess.commit()
Commit(s) ==
    IF ~s.ok THEN s
    ELSE [s EXCEPT !.committed = TRUE, !.log = Append(@, <<"COMMIT">>)]

\* Mutant of Rollback: a session that keeps what ran before the failure
Rollback_KeepsChanges(s) == [s EXCEPT !.log = Append(@, <<"ROLLBACK">>)]

\* The exception leaves the `with sess.begin()` block: the transaction is
\* rolled back
Rollback(s) == [s EXCEPT !.db = s.pre, !.log = Append(@, <<"ROLLBACK">>)]

\* Mutant of Exit: the block commits on every way out, an exception included
Exit_AlwaysCommits(s) ==
    IF s.committed THEN s
    ELSE [s EXCEPT !.committed = TRUE, !.log = Append(@, <<"COMMIT">>)]

\* Leaving the `with` block: by return (the transaction is committed unless
\* sess.commit() already did) or by exception
Exit(s) ==
    IF ~s.ok THEN Rollback(s)
    ELSE IF s.committed THEN s
    ELSE [s EXCEPT !.committed = TRUE, !.log = Append(@, <<"COMMIT">>)]

\* What an executor hands back: the table, the log, and a boolean or an error
Outcome(s, ret) ==
    LET e == Exit(s)
    IN [db |-> e.db, log |-> e.log, raised |-> ~e.ok, ret |-> e.ok /\ ret,
        failed_at |-> IF e.ok THEN 0 ELSE e.n, sql_error |-> e.sql_error]

\* A return that opens no session
NoSession(d, ret) ==
    [db |-> d, log |-> <<>>, raised |-> FALSE, ret |-> ret, failed_at |-> 0,
     sql_error |-> FALSE]

----------------------------------------------------------------------------
(* The apply executors.  Each follows its own function of v2_4_0.py:       *)
(* existence query, early return, column listing, the ADD COLUMN loop, the *)
(* index loop, the backfill, the commit.                                   *)

\* Mutant of SkipMissingTable: the early return left out
SkipMissingTable_Never(table_exists) == FALSE

\* `if not table_exists: log_info(...); return False`
SkipMissingTable(table_exists) == ~table_exists

\* Mutant of ColumnMissing: the first target column taken as the mark of an
\* applied migration
ColumnMissing_FirstOnly(col_name, existing_columns) ==
    KNOWLEDGE_COLUMNS[1][1] \notin existing_columns

\* `if col_name not in existing_columns`
ColumnMissing(col_name, existing_columns) == col_name \notin existing_columns

\* Mutant of NeedsBackfill: gated on the column's own absence alone
NeedsBackfill_ColumnOnly(existing_columns, applied_changes) ==
    "source_type" \notin existing_columns

\* Mutant of NeedsBackfill: the UPDATE issued on every call
NeedsBackfill_Always(existing_columns, applied_changes) == TRUE

\* `if "source_type" not in existing_columns or applied_changes`
NeedsBackfill(existing_columns, applied_changes) ==
    "source_type" \notin existing_columns \/ applied_changes

\* col_type.replace("VARCHAR(255)", "VARCHAR").replace("VARCHAR(50)", "VARCHAR")
sqlite_type(col_type) ==
    IF col_type \in {"VARCHAR(255)", "VARCHAR(50)"} THEN "VARCHAR" ELSE col_type

\* Mutant of AddColumnsPostgres: the column list walked from its end
RECURSIVE AddColumnsPostgres_Reversed(_, _, _, _)
AddColumnsPostgres_Reversed(s, table_name, existing_columns, i) ==
    IF i > Len(KNOWLEDGE_COLUMNS) THEN s
    ELSE LET col_name == KNOWLEDGE_COLUMNS[Len(KNOWLEDGE_COLUMNS) + 1 - i][1]
             col_type == KNOWLEDGE_COLUMNS[Len(KNOWLEDGE_COLUMNS) + 1 - i][2]
             s1 == IF ColumnMissing(col_name, existing_columns)
                   THEN SetApplied(Execute(s, AddColumn(table_name, col_name, col_type)))
                   ELSE s
         IN AddColumnsPostgres_Reversed(s1, table_name, existing_columns, i + 1)

RECURSIVE AddColumnsPostgres(_, _, _, _)
AddColumnsPostgres(s, table_name, existing_columns, i) ==
    IF i > Len(KNOWLEDGE_COLUMNS) THEN s
    ELSE LET col_name == KNOWLEDGE_COLUMNS[i][1]
             col_type == KNOWLEDGE_COLUMNS[i][2]
             s1 == IF ColumnMissing(col_name, existing_columns)
                   THEN SetApplied(Execute(s, AddColumn(table_name, col_name, col_type)))
                   ELSE s
         IN AddColumnsPostgres(s1, table_name, existing_columns, i + 1)

\* Mutant of AddIndexesPostgres: the conditional creation without the lookup
RECURSIVE AddIndexesPostgres_Unchecked(_, _, _)
AddIndexesPostgres_Unchecked(s, table_name, i) ==
    IF i > Len(INDEXED_COLUMNS) THEN s
    ELSE LET col_name == INDEXED_COLUMNS[i]
             idx == index_name(table_name, col_name)
             s1 == SetApplied(Execute(s, CreateIndexIfNotExists(table_name, idx, col_name)))
         IN AddIndexesPostgres_Unchecked(s1, table_name, i + 1)

RECURSIVE AddIndexesPostgres(_, _, _)
AddIndexesPostgres(s, table_name, i) ==
    IF i > Len(INDEXED_COLUMNS) THEN s
    ELSE LET col_name == INDEXED_COLUMNS[i]
             idx == index_name(table_name, col_name)
             s1 == Execute(s, IndexExistsQuery(table_name, idx))
             index_exists == HasIndex(s.db, idx)
             s2 == IF ~index_exists
                   THEN SetApplied(Execute(s1, CreateIndexIfNotExists(table_name, idx, col_name)))
                   ELSE s1
         IN AddIndexesPostgres(s2, table_name, i + 1)

\* Mutant of _migrate_postgres: the backfill moved ahead of the index loop
_migrate_postgres_BackfillFirst(d, table_name, fail) ==
    LET s0 == Begin(d, fail)
        s1 == Execute(s0, TableExistsQuery(table_name))
        table_exists == s0.db.exists
    IN IF s1.ok /\ SkipMissingTable(table_exists) THEN Outcome(s1, FALSE)
       ELSE LET s2 == Execute(s1, ColumnsQuery(table_name))
                existing_columns == s1.db.cols
                s3 == AddColumnsPostgres(s2, table_name, existing_columns, 1)
                s4 == IF NeedsBackfill(existing_columns, s3.applied_changes)
                      THEN Execute(s3, BackfillUpdate(table_name))
                      ELSE s3
                s5 == AddIndexesPostgres(s4, table_name, 1)
                s6 == Commit(s5)
            IN Outcome(s6, s6.applied_changes)

\* _migrate_postgres(db, table_name)
_migrate_postgres(d, table_name, fail) ==
    LET s0 == Begin(d, fail)
        s1 == Execute(s0, TableExistsQuery(table_name))
        table_exists == s0.db.exists
    IN IF s1.ok /\ SkipMissingTable(table_exists) THEN Outcome(s1, FALSE)
       ELSE LET s2 == Execute(s1, ColumnsQuery(table_name))
                existing_columns == s1.db.cols
                s3 == AddColumnsPostgres(s2, table_name, existing_columns, 1)
                s4 == AddIndexesPostgres(s3, table_name, 1)
                s5 == IF NeedsBackfill(existing_columns, s4.applied_changes)
                      THEN Execute(s4, BackfillUpdate(table_name))
                      ELSE s4
                s6 == Commit(s5)
            IN Outcome(s6, s6.applied_changes)

RECURSIVE AddColumnsAsyncPostgres(_, _, _, _)
AddColumnsAsyncPostgres(s, table_name, existing_columns, i) ==
    IF i > Len(KNOWLEDGE_COLUMNS) THEN s
    ELSE LET col_name == KNOWLEDGE_COLUMNS[i][1]
             col_type == KNOWLEDGE_COLUMNS[i][2]
             s1 == IF ColumnMissing(col_name, existing_columns)
                   THEN SetApplied(Execute(s, AddColumn(table_name, col_name, col_type)))
                   ELSE s
         IN AddColumnsAsyncPostgres(s1, table_name, existing_columns, i + 1)

\* Mutant of AddIndexesAsyncPostgres: the index loop of the SQLite executors
RECURSIVE AddIndexesAsyncPostgres_AsSqlite(_, _, _)
AddIndexesAsyncPostgres_AsSqlite(s, table_name, i) ==
    IF i > Len(INDEXED_COLUMNS) THEN s
    ELSE LET col_name == INDEXED_COLUMNS[i]
             idx == index_name(table_name, col_name)
             s1 == Execute(s, CreateIndexIfNotExists(table_name, idx, col_name))
         IN AddIndexesAsyncPostgres_AsSqlite(s1, table_name, i + 1)

RECURSIVE AddIndexesAsyncPostgres(_, _, _)
AddIndexesAsyncPostgres(s, table_name, i) ==
    IF i > Len(INDEXED_COLUMNS) THEN s
    ELSE LET col_name == INDEXED_COLUMNS[i]
             idx == index_name(table_name, col_name)
             s1 == Execute(s, IndexExistsQuery(table_name, idx))
             index_exists == HasIndex(s.db, idx)
             s2 == IF ~index_exists
                   THEN SetApplied(Execute(s1, CreateIndexIfNotExists(table_name, idx, col_name)))
                   ELSE s1
         IN AddIndexesAsyncPostgres(s2, table_name, i + 1)

\* _migrate_async_postgres(db, table_name)
_migrate_async_postgres(d, table_name, fail) ==
    LET s0 == Begin(d, fail)
        s1 == Execute(s0, TableExistsQuery(table_name))
        table_exists == s0.db.exists
    IN IF s1.ok /\ SkipMissingTable(table_exists) THEN Outcome(s1, FALSE)
       ELSE LET s2 == Execute(s1, ColumnsQuery(table_name))
                existing_columns == s1.db.cols
                s3 == AddColumnsAsyncPostgres(s2, table_name, existing_columns, 1)
                s4 == AddIndexesAsyncPostgres(s3, table_name, 1)
                s5 == IF NeedsBackfill(existing_columns, s4.applied_changes)
                      THEN Execute(s4, BackfillUpdate(table_name))
                      ELSE s4
                s6 == Commit(s5)
            IN Outcome(s6, s6.applied_changes)

RECURSIVE AddColumnsSqlite(_, _, _, _)
AddColumnsSqlite(s, table_name, existing_columns, i) ==
    IF i > Len(KNOWLEDGE_COLUMNS) THEN s
    ELSE LET col_name == KNOWLEDGE_COLUMNS[i][1]
             col_type == KNOWLEDGE_COLUMNS[i][2]
             s1 == IF ColumnMissing(col_name, existing_columns)
                   THEN SetApplied(Execute(s, AddColumn(table_name, col_name, sqlite_type(col_type))))
                   ELSE s
         IN AddColumnsSqlite(s1, table_name, existing_columns, i + 1)

RECURSIVE AddIndexesSqlite(_, _, _)
AddIndexesSqlite(s, table_name, i) ==
    IF i > Len(INDEXED_COLUMNS) THEN s
    ELSE LET col_name == INDEXED_COLUMNS[i]
             idx == index_name(table_name, col_name)
             s1 == Execute(s, CreateIndexIfNotExists(table_name, idx, col_name))
         IN AddIndexesSqlite(s1, table_name, i + 1)

\* _migrate_sqlite(db, table_name)
_migrate_sqlite(d, table_name, fail) ==
    LET s0 == Begin(d, fail)
        s1 == Execute(s0, TableExistsQuery(table_name))
        table_exists == s0.db.exists
    IN IF s1.ok /\ SkipMissingTable(table_exists) THEN Outcome(s1, FALSE)
       ELSE LET s2 == Execute(s1, ColumnsQuery(table_name))
                existing_columns == s1.db.cols
                s3 == AddColumnsSqlite(s2, table_name, existing_columns, 1)
                s4 == AddIndexesSqlite(s3, table_name, 1)
                s5 == IF NeedsBackfill(existing_columns, s4.applied_changes)
                      THEN Execute(s4, BackfillUpdate(table_name))
                      ELSE s4
                s6 == Commit(s5)
            IN Outcome(s6, s6.applied_changes)

RECURSIVE AddColumnsAsyncSqlite(_, _, _, _)
AddColumnsAsyncSqlite(s, table_name, existing_columns, i) ==
    IF i > Len(KNOWLEDGE_COLUMNS) THEN s
    ELSE LET col_name == KNOWLEDGE_COLUMNS[i][1]
             col_type == KNOWLEDGE_COLUMNS[i][2]
             s1 == IF ColumnMissing(col_name, existing_columns)
                   THEN SetApplied(Execute(s, AddColumn(table_name, col_name, sqlite_type(col_type))))
                   ELSE s
         IN AddColumnsAsyncSqlite(s1, table_name, existing_columns, i + 1)

RECURSIVE AddIndexesAsyncSqlite(_, _, _)
AddIndexesAsyncSqlite(s, table_name, i) ==
    IF i > Len(INDEXED_COLUMNS) THEN s
    ELSE LET col_name == INDEXED_COLUMNS[i]
             idx == index_name(table_name, col_name)
             s1 == Execute(s, CreateIndexIfNotExists(table_name, idx, col_name))
         IN AddIndexesAsyncSqlite(s1, table_name, i + 1)

\* _migrate_async_sqlite(db, table_name)
_migrate_async_sqlite(d, table_name, fail) ==
    LET s0 == Begin(d, fail)
        s1 == Execute(s0, TableExistsQuery(table_name))
        table_exists == s0.db.exists
    IN IF s1.ok /\ SkipMissingTable(table_exists) THEN Outcome(s1, FALSE)
       ELSE LET s2 == Execute(s1, ColumnsQuery(table_name))
                existing_columns == s1.db.cols
                s3 == AddColumnsAsyncSqlite(s2, table_name, existing_columns, 1)
                s4 == AddIndexesAsyncSqlite(s3, table_name, 1)
                s5 == IF NeedsBackfill(existing_columns, s4.applied_changes)
                      THEN Execute(s4, BackfillUpdate(table_name))
                      ELSE s4
                s6 == Commit(s5)
            IN Outcome(s6, s6.applied_changes)

RECURSIVE AddColumnsMySQL(_, _, _, _)
AddColumnsMySQL(s, table_name, existing_columns, i) ==
    IF i > Len(KNOWLEDGE_COLUMNS) THEN s
    ELSE LET col_name == KNOWLEDGE_COLUMNS[i][1]
             col_type == KNOWLEDGE_COLUMNS[i][2]
             s1 == IF ColumnMissing(col_name, existing_columns)
                   THEN SetApplied(Execute(s, AddColumn(table_name, col_name, col_type)))
                   ELSE s
         IN AddColumnsMySQL(s1, table_name, existing_columns, i + 1)

RECURSIVE AddIndexesMySQL(_, _, _)
AddIndexesMySQL(s, table_name, i) ==
    IF i > Len(INDEXED_COLUMNS) THEN s
    ELSE LET col_name == INDEXED_COLUMNS[i]
             idx == index_name(table_name, col_name)
             s1 == Execute(s, IndexExistsQuery(table_name, idx))
             index_exists == HasIndex(s.db, idx)
             s2 == IF ~index_exists
                   THEN SetApplied(Execute(s1, AddIndex(table_name, idx, col_name)))
                   ELSE s1
         IN AddIndexesMySQL(s2, table_name, i + 1)

\* _migrate_mysql(db, table_name)
_migrate_mysql(d, table_name, fail) ==
    LET s0 == Begin(d, fail)
        s1 == Execute(s0, TableExistsQuery(table_name))
        table_exists == s0.db.exists
    IN IF s1.ok /\ SkipMissingTable(table_exists) THEN Outcome(s1, FALSE)
       ELSE LET s2 == Execute(s1, ColumnsQuery(table_name))
                existing_columns == s1.db.cols
                s3 == AddColumnsMySQL(s2, table_name, existing_columns, 1)
                s4 == AddIndexesMySQL(s3, table_name, 1)
                s5 == IF NeedsBackfill(existing_columns, s4.applied_changes)
                      THEN Execute(s4, BackfillUpdate(table_name))
                      ELSE s4
                s6 == Commit(s5)
            IN Outcome(s6, s6.applied_changes)

\* SingleStore uses MySQL-compatible syntax
_migrate_singlestore(d, table_name, fail) == _migrate_mysql(d, table_name, fail)

----------------------------------------------------------------------------
(* The revert executors *)

RECURSIVE DropIndexesPostgres(_, _, _)
DropIndexesPostgres(s, table_name, i) ==
    IF i > Len(INDEXED_COLUMNS) THEN s
    ELSE DropIndexesPostgres(Execute(s, DropIndexIfExists(index_name(table_name, INDEXED_COLUMNS[i]))),
                table_name, i + 1)

RECURSIVE DropColumnsPostgres(_, _, _)
DropColumnsPostgres(s, table_name, i) ==
    IF i > Len(KNOWLEDGE_COLUMNS) THEN s
    ELSE DropColumnsPostgres(Execute(s, DropColumnIfExists(table_name, KNOWLEDGE_COLUMNS[i][1])),
                table_name, i + 1)

_revert_postgres(d, table_name, fail) ==
    LET s0 == Begin(d, fail)
        s1 == Execute(s0, TableExistsQuery(table_name))
        table_exists == s0.db.exists
    IN IF s1.ok /\ SkipMissingTable(table_exists) THEN Outcome(s1, FALSE)
       ELSE LET s2 == DropIndexesPostgres(s1, table_name, 1)
                s3 == DropColumnsPostgres(s2, table_name, 1)
                s4 == Commit(s3)
            IN Outcome(s4, TRUE)

RECURSIVE DropIndexesAsyncPostgres(_, _, _)
DropIndexesAsyncPostgres(s, table_name, i) ==
    IF i > Len(INDEXED_COLUMNS) THEN s
    ELSE DropIndexesAsyncPostgres(Execute(s, DropIndexIfExists(index_name(table_name, INDEXED_COLUMNS[i]))),
                table_name, i + 1)

RECURSIVE DropColumnsAsyncPostgres(_, _, _)
DropColumnsAsyncPostgres(s, table_name, i) ==
    IF i > Len(KNOWLEDGE_COLUMNS) THEN s
    ELSE DropColumnsAsyncPostgres(Execute(s, DropColumnIfExists(table_name, KNOWLEDGE_COLUMNS[i][1])),
                table_name, i + 1)

_revert_async_postgres(d, table_name, fail) ==
    LET s0 == Begin(d, fail)
        s1 == Execute(s0, TableExistsQuery(table_name))
        table_exists == s0.db.exists
    IN IF s1.ok /\ SkipMissingTable(table_exists) THEN Outcome(s1, FALSE)
       ELSE LET s2 == DropIndexesAsyncPostgres(s1, table_name, 1)
                s3 == DropColumnsAsyncPostgres(s2, table_name, 1)
                s4 == Commit(s3)
            IN Outcome(s4, TRUE)

\* Mutant of DropIndexesMySQL: the DROP INDEX without the lookup before it
RECURSIVE DropIndexesMySQL_Unchecked(_, _, _)
DropIndexesMySQL_Unchecked(s, table_name, i) ==
    IF i > Len(INDEXED_COLUMNS) THEN s
    ELSE LET idx == index_name(table_name, INDEXED_COLUMNS[i])
         IN DropIndexesMySQL_Unchecked(Execute(s, DropIndex(table_name, idx)),
                table_name, i + 1)

RECURSIVE DropIndexesMySQL(_, _, _)
DropIndexesMySQL(s, table_name, i) ==
    IF i > Len(INDEXED_COLUMNS) THEN s
    ELSE LET idx == index_name(table_name, INDEXED_COLUMNS[i])
             s1 == Execute(s, IndexExistsQuery(table_name, idx))
             index_exists == HasIndex(s.db, idx)
             s2 == IF index_exists THEN Execute(s1, DropIndex(table_name, idx)) ELSE s1
         IN DropIndexesMySQL(s2, table_name, i + 1)

RECURSIVE DropColumnsMySQL(_, _, _)
DropColumnsMySQL(s, table_name, i) ==
    IF i > Len(KNOWLEDGE_COLUMNS) THEN s
    ELSE DropColumnsMySQL(Execute(s, DropColumnIfExists(table_name, KNOWLEDGE_COLUMNS[i][1])),
                table_name, i + 1)

_revert_mysql(d, table_name, fail) ==
    LET s0 == Begin(d, fail)
        s1 == Execute(s0, TableExistsQuery(table_name))
        table_exists == s0.db.exists
    IN IF s1.ok /\ SkipMissingTable(table_exists) THEN Outcome(s1, FALSE)
       ELSE LET s2 == DropIndexesMySQL(s1, table_name, 1)
                s3 == DropColumnsMySQL(s2, table_name, 1)
                s4 == Commit(s3)
            IN Outcome(s4, TRUE)

\* Mutant of _revert_sqlite: the drops of the other dialects
_revert_sqlite_Drops(d, table_name, fail) == _revert_postgres(d, table_name, fail)

\* log_warning(...); return False
_revert_sqlite(d, table_name, fail) == NoSession(d, FALSE)

_revert_async_sqlite(d, table_name, fail) == NoSession(d, FALSE)

_revert_singlestore(d, table_name, fail) == _revert_mysql(d, table_name, fail)

----------------------------------------------------------------------------
(* The entry points *)

\* Mutant of IsKnowledge: the role check left out
IsKnowledge_AnyRole(table_type) == TRUE

\* `if table_type != "knowledge": return False` lets only this role through
IsKnowledge(table_type) == table_type = "knowledge"

\* Mutant of Reraise: the error logged and a boolean returned in its place
Reraise_Swallows(r) ==
    IF r.raised THEN [r EXCEPT !.log = Append(@, <<"log_error">>), !.raised = FALSE]
    ELSE r

\* `except Exception as e: log_error(...); raise`
Reraise(r) == IF r.raised THEN [r EXCEPT !.log = Append(@, <<"log_error">>)] ELSE r

\* Mutant of up: a kind without a branch handled as PostgresDb
up_DefaultPostgres(db_type, table_type, table_name, d, fail) ==
    IF ~IsKnowledge(table_type) THEN NoSession(d, FALSE)
    ELSE Reraise(CASE db_type = "MySQLDb" -> _migrate_mysql(d, table_name, fail)
                   [] db_type = "SqliteDb" -> _migrate_sqlite(d, table_name, fail)
                   [] db_type = "SingleStoreDb" -> _migrate_singlestore(d, table_name, fail)
                   [] OTHER -> _migrate_postgres(d, table_name, fail))

up(db_type, table_type, table_name, d, fail) ==
    IF ~IsKnowledge(table_type) THEN NoSession(d, FALSE)
    ELSE Reraise(CASE db_type = "PostgresDb" -> _migrate_postgres(d, table_name, fail)
                   [] db_type = "MySQLDb" -> _migrate_mysql(d, table_name, fail)
                   [] db_type = "SqliteDb" -> _migrate_sqlite(d, table_name, fail)
                   [] db_type = "SingleStoreDb" -> _migrate_singlestore(d, table_name, fail)
                   [] OTHER -> NoSession(d, FALSE))

async_up(db_type, table_type, table_name, d, fail) ==
    IF ~IsKnowledge(table_type) THEN NoSession(d, FALSE)
    ELSE Reraise(CASE db_type = "AsyncPostgresDb" -> _migrate_async_postgres(d, table_name, fail)
                   [] db_type = "AsyncSqliteDb" -> _migrate_async_sqlite(d, table_name, fail)
                   [] OTHER -> NoSession(d, FALSE))

down(db_type, table_type, table_name, d, fail) ==
    IF ~IsKnowledge(table_type) THEN NoSession(d, FALSE)
    ELSE Reraise(CASE db_type = "PostgresDb" -> _revert_postgres(d, table_name, fail)
                   [] db_type = "MySQLDb" -> _revert_mysql(d, table_name, fail)
                   [] db_type = "SqliteDb" -> _revert_sqlite(d, table_name, fail)
                   [] db_type = "SingleStoreDb" -> _revert_singlestore(d, table_name, fail)
                   [] OTHER -> NoSession(d, FALSE))

async_down(db_type, table_type, table_name, d, fail) ==
    IF ~IsKnowledge(table_type) THEN NoSession(d, FALSE)
    ELSE Reraise(CASE db_type = "AsyncPostgresDb" -> _revert_async_postgres(d, table_name, fail)
                   [] db_type = "AsyncSqliteDb" -> _revert_async_sqlite(d, table_name, fail)
                   [] OTHER -> NoSession(d, FALSE))

----------------------------------------------------------------------------
(* The state machine *)

\* Values a row's source_type can hold in table d
RowValues(cols) ==
    IF "source_type" \in cols THEN {NULL} \cup SourceTypes ELSE {NoColumn}

RowSeqs(cols) ==
    UNION {[1..n -> RowValues(cols)] : n \in 0..MaxRows}

AbsentTable == [exists |-> FALSE, cols |-> {}, idx |-> {}, rows |-> <<>>]

\* A table the migration can be handed: absent, or created before this
\* revision and carrying the first k target columns (k = 0: never migrated,
\* 0 < k: an earlier run stopped part-way), with no target index yet
InitTables ==
    {AbsentTable} \cup
    UNION {{[exists |-> TRUE, cols |-> BaseColumns \cup ColumnPrefix(k),
             idx |-> {}, rows |-> r] : r \in RowSeqs(ColumnPrefix(k))} :
           k \in 0..Len(KNOWLEDGE_COLUMNS)}

NoCall(d) ==
    [op |-> "none", table_type |-> "none", pre |-> d, raised |-> FALSE,
     ret |-> FALSE, log |-> <<>>, failed_at |-> 0, sql_error |-> FALSE]

NoTrip == [stage |-> 0, start |-> AbsentTable, first |-> AbsentTable]

\* No race under way
NoRace == [lock |-> "none", proc |-> <<>>]

Init ==
    /\ kind \in DbKinds
    /\ db \in InitTables
    /\ last = NoCall(db)
    /\ oob = 0
    /\ trip = NoTrip
    /\ race = NoRace

\* Number of statements an outcome's log holds
StatementCount(log) == Cardinality({i \in 1..Len(log) : IsStatement(log[i])})

\* The runner that calls the entry points stops at a raised error.  A call
\* that opened no session left everything as it was: what can follow it is
\* what could follow the state it started from, and the model does not
\* continue from it.
CanCall == ~last.raised /\ (last.op = "none" \/ last.log # <<>>)

\* One entry-point call with outcome r
Call(op, table_type, r) ==
    /\ db' = r.db
    /\ last' = [op |-> op, table_type |-> table_type, pre |-> db,
                raised |-> r.raised, ret |-> r.ret, log |-> r.log,
                failed_at |-> r.failed_at, sql_error |-> r.sql_error]
    /\ UNCHANGED <<kind, oob, trip, race>>

\* The statement that fails, if any, is one the invocation reaches
CallUp ==
    /\ CanCall
    /\ \E table_type \in TableTypes :
        \E fail \in 0..StatementCount(up(kind, table_type, TableName, db, 0).log) :
            Call("up", table_type, up(kind, table_type, TableName, db, fail))

CallAsyncUp ==
    /\ CanCall
    /\ \E table_type \in TableTypes :
        \E fail \in 0..StatementCount(async_up(kind, table_type, TableName, db, 0).log) :
            Call("async_up", table_type, async_up(kind, table_type, TableName, db, fail))

CallDown ==
    /\ CanCall
    /\ \E table_type \in TableTypes :
        \E fail \in 0..StatementCount(down(kind, table_type, TableName, db, 0).log) :
            Call("down", table_type, down(kind, table_type, TableName, db, fail))

CallAsyncDown ==
    /\ CanCall
    /\ \E table_type \in TableTypes :
        \E fail \in 0..StatementCount(async_down(kind, table_type, TableName, db, 0).log) :
            Call("async_down", table_type, async_down(kind, table_type, TableName, db, fail))

\* Changes made to the table by others than this migration
Oob(d) ==
    /\ oob < MaxOob
    /\ CanCall
    /\ db.exists
    /\ db' = d
    /\ oob' = oob + 1
    /\ last' = NoCall(d)
    /\ UNCHANGED <<kind, trip, race>>

OobAddColumn ==
    \E c \in ColumnNames \ db.cols :
        Oob(Run(AddColumn(TableName, c, "TEXT"), db).db)

OobDropColumn ==
    \E c \in ColumnNames \cap db.cols :
        Oob(Run(DropColumnIfExists(TableName, c), db).db)

OobCreateIndex ==
    \E c \in IndexedColumnSet \cap db.cols :
        /\ ~HasIndex(db, index_name(TableName, c))
        /\ Oob(Run(CreateIndexIfNotExists(TableName, index_name(TableName, c), c), db).db)

OobDropIndex ==
    \E i \in db.idx :
        Oob(Run(DropIndexIfExists(i[1]), db).db)

OobInsertRow ==
    \E v \in RowValues(db.cols) :
        /\ Len(db.rows) < MaxRows
        /\ Oob([db EXCEPT !.rows = Append(@, v)])

Next ==
    \/ CallUp
    \/ CallAsyncUp
    \/ CallDown
    \/ CallAsyncDown
    \/ OobAddColumn
    \/ OobDropColumn
    \/ OobCreateIndex
    \/ OobDropIndex
    \/ OobInsertRow

Spec == Init /\ [][Next]_vars

----------------------------------------------------------------------------
(* The round trip: apply, revert, apply, each through the entry point that *)
(* governs the handle, none failing, nothing else touching the table.      *)

\* The table with every target column and index
FullTable(r) ==
    [exists |-> TRUE, cols |-> BaseColumns \cup ColumnNames,
     idx |-> {<<index_name(TableName, c), c>> : c \in IndexedColumnSet},
     rows |-> r]

\* Tables a round trip starts from: those of InitTables, and the migrated
\* table that has since lost one target column
TripTables ==
    InitTables \cup
    {Run(DropColumnIfExists(TableName, c), FullTable(r)).db :
        <<c, r>> \in ColumnNames \X RowSeqs(ColumnNames)}

ApplyFor(k, d) ==
    IF k \in AsyncKinds THEN async_up(k, "knowledge", TableName, d, 0)
    ELSE up(k, "knowledge", TableName, d, 0)

RevertFor(k, d) ==
    IF k \in AsyncKinds THEN async_down(k, "knowledge", TableName, d, 0)
    ELSE down(k, "knowledge", TableName, d, 0)

OpFor(k, op) == IF k \in AsyncKinds THEN "async_" \o op ELSE op

TripInit ==
    /\ kind \in DbKinds
    /\ db \in TripTables
    /\ last = NoCall(db)
    /\ oob = 0
    /\ trip = [stage |-> 0, start |-> db, first |-> db]
    /\ race = NoRace

TripStep(stage, op, r) ==
    /\ trip.stage = stage
    /\ ~r.raised
    /\ db' = r.db
    /\ last' = [op |-> OpFor(kind, op), table_type |-> "knowledge", pre |-> db,
                raised |-> r.raised, ret |-> r.ret, log |-> r.log,
                failed_at |-> r.failed_at, sql_error |-> r.sql_error]
    /\ UNCHANGED <<kind, oob, race>>

TripApply ==
    /\ TripStep(0, "up", ApplyFor(kind, db))
    /\ trip' = [stage |-> 1, start |-> db, first |-> db']

TripRevert ==
    /\ TripStep(1, "down", RevertFor(kind, db))
    /\ trip' = [trip EXCEPT !.stage = 2]

TripReapply ==
    /\ TripStep(2, "up", ApplyFor(kind, db))
    /\ trip' = [trip EXCEPT !.stage = 3]

TripNext ==
    \/ TripApply
    \/ TripRevert
    \/ TripReapply

SpecTrip == TripInit /\ [][TripNext]_vars

----------------------------------------------------------------------------
(* Racing applies: two apply invocations on the same table, one statement  *)
(* at a time.  Each invocation follows the same executor code as above,    *)
(* with its position held in pc and i.  The engine gives each transaction  *)
(* the committed table until its first write; a write takes the table's    *)
(* lock, which is held until the transaction ends, and a write of another  *)
(* transaction waits for it.                                               *)

Procs == {"first", "second"}

SqliteKinds == {"SqliteDb", "AsyncSqliteDb"}

MySQLKinds == {"MySQLDb", "SingleStoreDb"}

\* Tables two invocations race on: existing, never or partly migrated, or
\* migrated and since deprived of a column (and of its index)
RaceTables == {d \in TripTables : d.exists}

\* The column type the executor of kind k puts in ADD COLUMN
ColumnTypeFor(k, col_type) ==
    IF k \in SqliteKinds THEN sqlite_type(col_type) ELSE col_type

\* The executors of Postgres and MySQL look an index up before creating it
ChecksIndexes(k) == k \notin SqliteKinds

\* The statement that creates an index in the executor of kind k
CreateIndexFor(k, table_name, idx, col_name) ==
    IF k \in MySQLKinds THEN AddIndex(table_name, idx, col_name)
    ELSE CreateIndexIfNotExists(table_name, idx, col_name)

\* Mutant of IndexMissing: the test inverted
IndexMissing_Inverted(index_exists) == index_exists

\* `if not index_exists`
IndexMissing(index_exists) == ~index_exists

\* An invocation that has entered its `with` block and issued nothing yet
Entered(d) ==
    [pc |-> "exists", i |-> 0, existing_columns |-> {}, s |-> Begin(d, 0),
     out |-> NoSession(d, FALSE)]

\* Moves an invocation past the loop iterations and the gate that issue no
\* statement, to the next statement it will issue
RECURSIVE Settle(_)
Settle(me) ==
    CASE me.pc = "addcol" ->
            IF me.i > Len(KNOWLEDGE_COLUMNS)
            THEN Settle([me EXCEPT !.pc = "index", !.i = 1])
            ELSE IF ColumnMissing(KNOWLEDGE_COLUMNS[me.i][1], me.existing_columns)
            THEN me
            ELSE Settle([me EXCEPT !.i = @ + 1])
      [] me.pc = "index" ->
            IF me.i > Len(INDEXED_COLUMNS)
            THEN Settle([me EXCEPT !.pc = "backfill", !.i = 0])
            ELSE me
      [] me.pc = "backfill" ->
            IF NeedsBackfill(me.existing_columns, me.s.applied_changes)
            THEN me
            ELSE [me EXCEPT !.pc = "commit"]
      [] OTHER -> me

\* The statement an invocation of kind k issues next
Pending(k, me) ==
    CASE me.pc = "exists" -> TableExistsQuery(TableName)
      [] me.pc = "columns" -> ColumnsQuery(TableName)
      [] me.pc = "addcol" ->
            AddColumn(TableName, KNOWLEDGE_COLUMNS[me.i][1],
                      ColumnTypeFor(k, KNOWLEDGE_COLUMNS[me.i][2]))
      [] me.pc = "index" ->
            IF ChecksIndexes(k)
            THEN IndexExistsQuery(TableName, index_name(TableName, INDEXED_COLUMNS[me.i]))
            ELSE CreateIndexIfNotExists(TableName,
                     index_name(TableName, INDEXED_COLUMNS[me.i]), INDEXED_COLUMNS[me.i])
      [] me.pc = "create" ->
            CreateIndexFor(k, TableName,
                index_name(TableName, INDEXED_COLUMNS[me.i]), INDEXED_COLUMNS[me.i])
      [] OTHER -> BackfillUpdate(TableName)

IsWrite(stmt) == stmt[1] \notin Queries

\* The session of invocation p as its next statement finds it: its own
\* uncommitted table while it holds the lock, the committed one otherwise
SessionView(p) ==
    IF race.lock = p THEN race.proc[p].s
    ELSE [race.proc[p].s EXCEPT !.db = db, !.pre = db]

\* The invocation after its statement returned: s1 is the session after the
\* statement, seen the table the statement ran against
AfterStatement(k, me, s1, seen) ==
    CASE me.pc = "exists" -> [me EXCEPT !.s = s1, !.pc = "columns"]
      [] me.pc = "columns" ->
            Settle([me EXCEPT !.s = s1, !.existing_columns = seen.cols,
                              !.pc = "addcol", !.i = 1])
      [] me.pc = "addcol" ->
            Settle([me EXCEPT !.s = SetApplied(s1), !.i = @ + 1])
      [] me.pc = "index" ->
            IF ChecksIndexes(k)
            THEN LET index_exists ==
                        HasIndex(seen, index_name(TableName, INDEXED_COLUMNS[me.i]))
                 IN IF IndexMissing(index_exists)
                    THEN [me EXCEPT !.s = s1, !.pc = "create"]
                    ELSE Settle([me EXCEPT !.s = s1, !.i = @ + 1])
            ELSE Settle([me EXCEPT !.s = s1, !.i = @ + 1])
      [] me.pc = "create" ->
            Settle([me EXCEPT !.s = SetApplied(s1), !.pc = "index", !.i = @ + 1])
      [] OTHER -> [me EXCEPT !.s = s1, !.pc = "commit"]

\* The invocation has left its executor with outcome out
Ended(me, s1, out) == [me EXCEPT !.s = s1, !.pc = "done", !.out = out]

RaceInit ==
    /\ kind \in SyncKinds \cup AsyncKinds
    /\ db \in RaceTables
    /\ last = NoCall(db)
    /\ oob = 0
    /\ trip = NoTrip
    /\ race = [lock |-> "none", proc |-> [p \in Procs |-> Entered(db)]]

\* Invocation p issues its next statement
RaceExecute(p) ==
    LET me == race.proc[p]
        stmt == Pending(kind, me)
        sv == SessionView(p)
        s1 == Execute(sv, stmt)
        table_exists == sv.db.exists
        holds == race.lock = p \/ IsWrite(stmt)
    IN /\ me.pc \notin {"commit", "done"}
       /\ IsWrite(stmt) => race.lock \in {"none", p}
       /\ IF ~s1.ok
          THEN LET out == Reraise(Outcome(s1, FALSE))
               IN /\ db' = IF holds THEN out.db ELSE db
                  /\ race' = [lock |-> IF holds THEN "none" ELSE race.lock,
                              proc |-> [race.proc EXCEPT ![p] = Ended(me, s1, out)]]
          ELSE IF me.pc = "exists" /\ SkipMissingTable(table_exists)
          THEN LET out == Reraise(Outcome(s1, FALSE))
               IN /\ db' = db
                  /\ race' = [race EXCEPT !.proc[p] = Ended(me, s1, out)]
          ELSE /\ db' = db
               /\ race' = [lock |-> IF holds THEN p ELSE race.lock,
                           proc |-> [race.proc EXCEPT
                                       ![p] = AfterStatement(kind, me, s1, sv.db)]]
       /\ UNCHANGED <<kind, last, oob, trip>>

\* Invocation p reaches sess.commit() and returns applied_changes
RaceCommit(p) ==
    LET me == race.proc[p]
        sv == SessionView(p)
        s1 == Commit(sv)
        out == Reraise(Outcome(s1, s1.applied_changes))
    IN /\ me.pc = "commit"
       /\ db' = IF race.lock = p THEN out.db ELSE db
       /\ race' = [lock |-> IF race.lock = p THEN "none" ELSE race.lock,
                   proc |-> [race.proc EXCEPT ![p] = Ended(me, s1, out)]]
       /\ UNCHANGED <<kind, last, oob, trip>>

RaceNext ==
    \/ \E p \in Procs : RaceExecute(p)
    \/ \E p \in Procs : RaceCommit(p)

SpecRace == RaceInit /\ [][RaceNext]_vars

----------------------------------------------------------------------------
(* One invocation, apply or revert, one statement at a time, with a        *)
(* statement that may fail.  What a concurrent reader of the table sees    *)
(* in any state is db, the committed table.  The apply invocation takes    *)
(* the steps of the race above; the revert invocation follows the revert   *)
(* executors in the same way.                                              *)

Solo == {"apply", "revert"}

\* Tables the single invocation starts from
SoloTables == RaceTables \cup {FullTable(r) : r \in RowSeqs(ColumnNames)}

\* Moves a revert invocation past the end of a loop
RECURSIVE SettleRevert(_)
SettleRevert(me) ==
    CASE me.pc = "dropindex" /\ me.i > Len(INDEXED_COLUMNS) ->
            SettleRevert([me EXCEPT !.pc = "dropcol", !.i = 1])
      [] me.pc = "dropcol" /\ me.i > Len(KNOWLEDGE_COLUMNS) ->
            [me EXCEPT !.pc = "commit", !.i = 0]
      [] OTHER -> me

\* The statement a revert invocation of kind k issues next
PendingRevert(k, me) ==
    CASE me.pc = "exists" -> TableExistsQuery(TableName)
      [] me.pc = "dropindex" ->
            IF k \in MySQLKinds
            THEN IndexExistsQuery(TableName, index_name(TableName, INDEXED_COLUMNS[me.i]))
            ELSE DropIndexIfExists(index_name(TableName, INDEXED_COLUMNS[me.i]))
      [] me.pc = "drop" ->
            DropIndex(TableName, index_name(TableName, INDEXED_COLUMNS[me.i]))
      [] OTHER -> DropColumnIfExists(TableName, KNOWLEDGE_COLUMNS[me.i][1])

\* The revert invocation after its statement returned
AfterRevertStatement(k, me, s1, seen) ==
    CASE me.pc = "exists" ->
            SettleRevert([me EXCEPT !.s = s1, !.pc = "dropindex", !.i = 1])
      [] me.pc = "dropindex" ->
            IF k \in MySQLKinds
            THEN LET index_exists ==
                        HasIndex(seen, index_name(TableName, INDEXED_COLUMNS[me.i]))
                 IN IF index_exists
                    THEN [me EXCEPT !.s = s1, !.pc = "drop"]
                    ELSE SettleRevert([me EXCEPT !.s = s1, !.i = @ + 1])
            ELSE SettleRevert([me EXCEPT !.s = s1, !.i = @ + 1])
      [] me.pc = "drop" ->
            SettleRevert([me EXCEPT !.s = s1, !.pc = "dropindex", !.i = @ + 1])
      [] OTHER -> SettleRevert([me EXCEPT !.s = s1, !.i = @ + 1])

SoloInit ==
    /\ kind \in SyncKinds \cup AsyncKinds
    /\ db \in SoloTables
    /\ last = NoCall(db)
    /\ oob = 0
    /\ trip = NoTrip
    /\ \E p \in Solo :
        /\ p = "revert" => kind \notin SqliteKinds
        /\ \E fail \in 0..StatementCount(IF p = "apply" THEN ApplyFor(kind, db).log
                                         ELSE RevertFor(kind, db).log) :
            race = [lock |-> "none",
                    proc |-> [q \in {p} |-> [Entered(db) EXCEPT !.s = Begin(db, fail)]]]

\* The apply invocation issues its next statement
SoloApplyExecute == "apply" \in DOMAIN race.proc /\ RaceExecute("apply")

\* The apply invocation commits
SoloApplyCommit == "apply" \in DOMAIN race.proc /\ RaceCommit("apply")

\* The revert invocation issues its next statement
SoloRevertExecute ==
    /\ "revert" \in DOMAIN race.proc
    /\ LET me == race.proc["revert"]
           stmt == PendingRevert(kind, me)
           sv == SessionView("revert")
           s1 == Execute(sv, stmt)
           table_exists == sv.db.exists
           holds == race.lock = "revert" \/ IsWrite(stmt)
       IN /\ me.pc \notin {"commit", "done"}
          /\ IF ~s1.ok
             THEN LET out == Reraise(Outcome(s1, FALSE))
                  IN /\ db' = IF holds THEN out.db ELSE db
                     /\ race' = [lock |-> "none",
                                 proc |-> [race.proc EXCEPT
                                             !["revert"] = Ended(me, s1, out)]]
             ELSE IF me.pc = "exists" /\ SkipMissingTable(table_exists)
             THEN LET out == Reraise(Outcome(s1, FALSE))
                  IN /\ db' = db
                     /\ race' = [race EXCEPT !.proc["revert"] = Ended(me, s1, out)]
             ELSE /\ db' = db
                  /\ race' = [lock |-> IF holds THEN "revert" ELSE race.lock,
                              proc |-> [race.proc EXCEPT
                                          !["revert"] =
                                              AfterRevertStatement(kind, me, s1, sv.db)]]
    /\ UNCHANGED <<kind, last, oob, trip>>

\* The revert invocation reaches sess.commit() and returns True
SoloRevertCommit ==
    /\ "revert" \in DOMAIN race.proc
    /\ LET me == race.proc["revert"]
           sv == SessionView("revert")
           s1 == Commit(sv)
           out == Reraise(Outcome(s1, TRUE))
       IN /\ me.pc = "commit"
          /\ db' = IF race.lock = "revert" THEN out.db ELSE db
          /\ race' = [lock |-> "none",
                      proc |-> [race.proc EXCEPT !["revert"] = Ended(me, s1, out)]]
    /\ UNCHANGED <<kind, last, oob, trip>>

SoloNext ==
    \/ SoloApplyExecute
    \/ SoloApplyCommit
    \/ SoloRevertExecute
    \/ SoloRevertCommit

SpecSolo == SoloInit /\ [][SoloNext]_vars

----------------------------------------------------------------------------
(* Apply and revert calls, in any order, on a table that also carries      *)
(* indexes the migration did not create: one over a column the table had   *)
(* before this revision, one over a target column.                         *)

UserIndexes == {<<"idx_name", "name">>, <<"idx_root_id", "root_id">>}

\* Tables with any part of the target columns, none or all of the target
\* indexes their columns allow, and any of the other indexes their columns
\* allow
FrameTables ==
    UNION {{[exists |-> TRUE, cols |-> BaseColumns \cup ColumnPrefix(k),
             idx |-> t \cup u, rows |-> r] :
                <<t, u, r>> \in
                    {{}, {<<index_name(TableName, c), c>> :
                              c \in IndexedColumnSet \cap ColumnPrefix(k)}}
                    \X (SUBSET {i \in UserIndexes :
                                    i[2] \in BaseColumns \cup ColumnPrefix(k)})
                    \X RowSeqs(ColumnPrefix(k))} :
           k \in 0..Len(KNOWLEDGE_COLUMNS)}

FrameInit ==
    /\ kind \in DbKinds
    /\ db \in FrameTables
    /\ last = NoCall(db)
    /\ oob = 0
    /\ trip = [stage |-> 0, start |-> db, first |-> db]
    /\ race = NoRace

FrameNext ==
    \/ CallUp
    \/ CallAsyncUp
    \/ CallDown
    \/ CallAsyncDown

SpecFrame == FrameInit /\ [][FrameNext]_vars

----------------------------------------------------------------------------
(* Vocabulary of the properties *)

ApplyOps == {"up", "async_up"}

RevertOps == {"down", "async_down"}

\* The entry point op has a branch for handles of kind k
Governs(op, k) ==
    \/ op \in {"up", "down"} /\ k \in SyncKinds
    \/ op \in {"async_up", "async_down"} /\ k \in AsyncKinds

\* The last call reached an executor
ExecutorRan ==
    last.op # "none" /\ last.table_type = "knowledge" /\ Governs(last.op, kind)

\* The last call was an apply on an existing table that completed
Applied ==
    ExecutorRan /\ last.op \in ApplyOps /\ last.pre.exists /\ ~last.raised

AllColumns(d) == ColumnNames \subseteq d.cols

AllIndexes(d) ==
    \A c \in IndexedColumnSet : <<index_name(TableName, c), c>> \in d.idx

TargetColumnsOf(d) == d.cols \cap ColumnNames

TargetIndexesOf(d) == {i \in d.idx : i[1] \in IndexNames(TableName)}

StatementsOf(log) == SelectSeq(log, IsStatement)

Issued(log, tag) == \E i \in 1..Len(log) : log[i][1] = tag

CountIssued(log, tag) == Cardinality({i \in 1..Len(log) : log[i][1] = tag})

----------------------------------------------------------------------------
(* Properties *)

\* C1 (as claimed): on an existing table with a target column or a target
\* index missing, two apply calls in succession return true and then false,
\* and the second leaves the column set and the index set as the first
\* left them.
C1_Idempotence ==
    [][(/\ Applied
        /\ ~AllColumns(last.pre) \/ ~AllIndexes(last.pre)
        /\ last'.op = last.op
        /\ last'.table_type = "knowledge"
        /\ ~last'.raised)
       => (/\ last.ret
           /\ ~last'.ret
           /\ db'.cols = db.cols
           /\ db'.idx = db.idx)]_vars

\* C2: an apply call that completes on an existing table leaves all eleven
\* target columns and all four target indexes present, whatever calls and
\* out-of-band changes came before.
C2_Completeness == Applied => AllColumns(db) /\ AllIndexes(db)

C2_Witness ==
    /\ Applied
    /\ oob > 0
    /\ ~AllColumns(last.pre)
    /\ ~AllIndexes(last.pre)
    /\ TargetColumnsOf(last.pre) # {}

\* C3 (as claimed): after an apply call that completes, every row whose
\* source_type was absent or NULL before the call holds 'legacy'.  Stated
\* for Postgres and MySQL/SingleStore, whose return value counts every
\* change the call made (see C9 for SQLite).
C3_BackfillAlways ==
    (Applied /\ kind \notin {"SqliteDb", "AsyncSqliteDb"}) =>
        \A i \in 1..Len(last.pre.rows) :
            last.pre.rows[i] \in {NULL, NoColumn} => db.rows[i] = "legacy"

\* C3 (amended): after an apply call that completes and returns true, every
\* row whose source_type was absent or NULL before the call holds 'legacy'.
C3_BackfillWhenApplied ==
    (Applied /\ last.ret) =>
        \A i \in 1..Len(last.pre.rows) :
            last.pre.rows[i] \in {NULL, NoColumn} => db.rows[i] = "legacy"

C3_Witness ==
    /\ Applied
    /\ last.ret
    /\ "source_type" \in last.pre.cols
    /\ \E i \in 1..Len(last.pre.rows) :
          last.pre.rows[i] = NULL /\ db.rows[i] = "legacy"

\* C4: an apply call leaves every row whose source_type was set (not NULL)
\* before the call with the value it had.
C4_SetValuesKept ==
    last.op \in ApplyOps =>
        \A i \in 1..Len(last.pre.rows) :
            last.pre.rows[i] \notin {NULL, NoColumn} =>
                i <= Len(db.rows) /\ db.rows[i] = last.pre.rows[i]

C4_Witness ==
    /\ Applied
    /\ Issued(last.log, BackfillUpdate(TableName)[1])
    /\ \E i \in 1..Len(last.pre.rows) : last.pre.rows[i] = "local_file"

\* C5: when a statement of an apply or revert invocation fails, the caller
\* gets the error and the table is as it was before the invocation; a table
\* that differs from what it was is the work of a call that completed and
\* holds all of that call's changes.
C5_AllOrNothing ==
    last.op # "none" =>
        /\ last.failed_at # 0 => last.raised /\ db = last.pre
        /\ last.raised => db = last.pre /\ ~Issued(last.log, "COMMIT")
        /\ db # last.pre =>
              /\ ~last.raised
              /\ IF last.op \in ApplyOps
                 THEN AllColumns(db) /\ AllIndexes(db)
                 ELSE TargetColumnsOf(db) = {} /\ TargetIndexesOf(db) = {}

\* a failure after two columns were added in the session
C5_Witness ==
    /\ last.raised
    /\ CountIssued(last.log, "ALTER TABLE ADD COLUMN") >= 3
    /\ db = last.pre

\* C6: apply and revert on a table that does not exist issue no statement
\* but the one existence query, change nothing, and return false without
\* raising (unless that query itself fails).
C6_AbsentTable ==
    (ExecutorRan /\ ~last.pre.exists) =>
        /\ StatementsOf(last.log) \in {<<>>, <<TableExistsQuery(TableName)>>}
        /\ db = last.pre
        /\ last.failed_at = 0 => ~last.raised /\ ~last.ret

C6_Witness ==
    /\ ExecutorRan
    /\ ~last.pre.exists
    /\ last.op = "down"
    /\ kind = "MySQLDb"
    /\ StatementsOf(last.log) = <<TableExistsQuery(TableName)>>
    /\ ~last.raised

\* C7: an entry point called with a table_type other than "knowledge"
\* returns false, opens no session, executes nothing and changes nothing,
\* for every db kind.
C7_WrongRole ==
    (last.op # "none" /\ last.table_type # "knowledge") =>
        ~last.raised /\ ~last.ret /\ last.log = <<>> /\ db = last.pre

C7_Witness ==
    /\ last.op = "async_down"
    /\ last.table_type # "knowledge"
    /\ kind = "AsyncPostgresDb"
    /\ AllColumns(db)

C9_ReturnValue ==
    Applied => (last.ret <=> (db.cols # last.pre.cols \/ db.idx # last.pre.idx))

\* C10: down on SqliteDb and async_down on AsyncSqliteDb return false, raise
\* nothing, execute no statement and change nothing, whether or not the
\* table exists.
C10_SqliteRevert ==
    (/\ last.table_type = "knowledge"
     /\ \/ last.op = "down" /\ kind = "SqliteDb"
        \/ last.op = "async_down" /\ kind = "AsyncSqliteDb") =>
        ~last.ret /\ ~last.raised /\ last.log = <<>> /\ db = last.pre

C10_Witness ==
    /\ last.table_type = "knowledge"
    /\ last.op = "async_down"
    /\ kind = "AsyncSqliteDb"
    /\ AllColumns(db)
    /\ AllIndexes(db)

\* Kinds whose revert executor drops the indexes and the columns
DropKinds == {"PostgresDb", "AsyncPostgresDb", "MySQLDb", "SingleStoreDb"}

\* The last call was a revert on an existing table that reached one of the
\* dropping executors
RevertRan ==
    ExecutorRan /\ last.op \in RevertOps /\ kind \in DropKinds /\ last.pre.exists

C12_RevertReturnValue ==
    (/\ last.op \in RevertOps
     /\ last.table_type = "knowledge"
     /\ ~last.raised) =>
        (last.ret <=> (db.cols # last.pre.cols \/ db.idx # last.pre.idx))

\* C13: an entry point called for the knowledge table with a handle of a
\* kind it has no branch for returns false, raises nothing, executes no
\* statement and leaves the table as it was.
C13_UnsupportedDeclined ==
    (/\ last.op # "none"
     /\ last.table_type = "knowledge"
     /\ ~Governs(last.op, kind)) =>
        ~last.ret /\ ~last.raised /\ last.log = <<>> /\ db = last.pre

C13_Witness ==
    /\ last.op = "up"
    /\ last.table_type = "knowledge"
    /\ kind \in DocumentKinds
    /\ last.pre.exists
    /\ ~AllColumns(last.pre)
    /\ ~last.ret
    /\ last.log = <<>>

\* C14 (as claimed): a sync entry point called with an async handle kind, or
\* an async entry point called with a sync handle kind, ends in a raised
\* error.
C14_MismatchRaises ==
    (/\ last.table_type = "knowledge"
     /\ \/ last.op \in {"up", "down"} /\ kind \in AsyncKinds
        \/ last.op \in {"async_up", "async_down"} /\ kind \in SyncKinds) =>
        last.raised

\* The last call was an apply on an existing table that reached an executor
ApplyRan ==
    ExecutorRan /\ last.op \in ApplyOps /\ last.pre.exists

\* Names of the columns the ADD COLUMN statements of a log add, in order
AddedColumns(log) ==
    LET IsAdd(e) == e[1] = "ALTER TABLE ADD COLUMN"
        adds == SelectSeq(log, IsAdd)
    IN [i \in 1..Len(adds) |-> adds[i][3]]

\* The target columns missing from cols, in the declared order
MissingColumns(cols) ==
    LET Missing(c) == c \notin cols
    IN SelectSeq([i \in 1..Len(KNOWLEDGE_COLUMNS) |-> KNOWLEDGE_COLUMNS[i][1]],
                 Missing)

IsPrefix(a, b) == Len(a) <= Len(b) /\ SubSeq(b, 1, Len(a)) = a

\* C15: the ADD COLUMN statements of an apply call on an existing table name
\* the target columns missing from the table as the call found it, in the
\* declared order and each once: all of them when the call completes, a
\* leading part of them when a statement fails.
C15_ColumnPlan ==
    ApplyRan =>
        /\ IsPrefix(AddedColumns(last.log), MissingColumns(last.pre.cols))
        /\ ~last.raised => AddedColumns(last.log) = MissingColumns(last.pre.cols)

C15_Witness ==
    /\ Applied
    /\ Cardinality(TargetColumnsOf(last.pre)) = 5
    /\ last.pre.idx = {}
    /\ Len(AddedColumns(last.log)) = 6
    /\ AllIndexes(db)
    /\ Issued(last.log, BackfillUpdate(TableName)[1])
    /\ last.ret

\* C16 (as claimed): an apply call that completes issues the backfill UPDATE
\* if and only if source_type was missing from the table as the call found
\* it or the call added a column or an index.
C16_BackfillTrigger ==
    Applied =>
        (Issued(last.log, BackfillUpdate(TableName)[1]) <=>
            \/ "source_type" \notin last.pre.cols
            \/ db.cols # last.pre.cols
            \/ db.idx # last.pre.idx)

\* Statements of a log that look up or create an index
IndexStatements(log) ==
    LET IsIndexStatement(e) ==
            e[1] \in {"SELECT EXISTS INDEX", "CREATE INDEX IF NOT EXISTS",
                      "ALTER TABLE ADD INDEX"}
    IN SelectSeq(log, IsIndexStatement)

\* The index statements of a completed apply by a handle of kind k on table d
RECURSIVE IndexPlan(_, _, _)
IndexPlan(k, d, i) ==
    IF i > Len(INDEXED_COLUMNS) THEN <<>>
    ELSE LET col_name == INDEXED_COLUMNS[i]
             idx == index_name(TableName, col_name)
             one == CASE k \in {"SqliteDb", "AsyncSqliteDb"} ->
                            <<CreateIndexIfNotExists(TableName, idx, col_name)>>
                      [] k \in {"PostgresDb", "AsyncPostgresDb"} ->
                            <<IndexExistsQuery(TableName, idx)>> \o
                            (IF HasIndex(d, idx) THEN <<>>
                             ELSE <<CreateIndexIfNotExists(TableName, idx, col_name)>>)
                      [] OTHER ->
                            <<IndexExistsQuery(TableName, idx)>> \o
                            (IF HasIndex(d, idx) THEN <<>>
                             ELSE <<AddIndex(TableName, idx, col_name)>>)
         IN one \o IndexPlan(k, d, i + 1)

\* C17 (as claimed): an apply call that completes on an existing table
\* issues a conditional create-index statement for each of the four indexed
\* columns and looks up no index.
C17_UncheckedIndexes ==
    Applied =>
        /\ \A c \in IndexedColumnSet :
              \E i \in 1..Len(last.log) :
                  last.log[i] = CreateIndexIfNotExists(TableName, index_name(TableName, c), c)
        /\ ~Issued(last.log, "SELECT EXISTS INDEX")

\* C17 (amended): the index statements of an apply call that completes on an
\* existing table are, per indexed column in the declared order: on SQLite
\* one CREATE INDEX IF NOT EXISTS with no lookup; on Postgres a lookup of the
\* index, then CREATE INDEX IF NOT EXISTS only if the lookup found none; on
\* MySQL and SingleStore a lookup, then ALTER TABLE ADD INDEX only if the
\* lookup found none.
C17_IndexPlanByDialect ==
    Applied => IndexStatements(last.log) = IndexPlan(kind, last.pre, 1)

C17_Witness ==
    /\ Applied
    /\ kind = "PostgresDb"
    /\ TargetIndexesOf(last.pre) # {}
    /\ ~AllIndexes(last.pre)
    /\ CountIssued(last.log, "SELECT EXISTS INDEX") = Len(INDEXED_COLUMNS)
    /\ CountIssued(last.log, "CREATE INDEX IF NOT EXISTS") < Len(INDEXED_COLUMNS)
    /\ AllIndexes(db)

\* Place of a log entry in the order of an apply invocation
Phase(e) ==
    CASE e[1] = "BEGIN" -> 0
      [] e[1] = "SELECT EXISTS TABLE" -> 1
      [] e[1] = "SELECT COLUMNS" -> 2
      [] e[1] = "ALTER TABLE ADD COLUMN" -> 3
      [] e[1] \in {"SELECT EXISTS INDEX", "CREATE INDEX IF NOT EXISTS",
                   "ALTER TABLE ADD INDEX"} -> 4
      [] e[1] = "UPDATE SET source_type = 'legacy' WHERE source_type IS NULL" -> 5
      [] e[1] \in {"COMMIT", "ROLLBACK"} -> 6
      [] OTHER -> 7

\* C18: in the log of an apply invocation the session opens first, then come
\* the existence query, the column listing, the ADD COLUMN statements, the
\* index lookups and creations, the backfill UPDATE and the commit (or the
\* rollback), in that order: from one entry to the next the place in that
\* order never goes back, and it goes forward after the opening, either
\* query, the UPDATE and the end of the transaction, so that each of these
\* occurs at most once.  An invocation that completes on an existing table
\* opens with the two queries and ends with the commit.
C18_StatementOrder ==
    (ExecutorRan /\ last.op \in ApplyOps) =>
        /\ \A i \in 1..(Len(last.log) - 1) :
              /\ Phase(last.log[i]) <= Phase(last.log[i + 1])
              /\ Phase(last.log[i]) \in {0, 1, 2, 5, 6} =>
                     Phase(last.log[i]) < Phase(last.log[i + 1])
        /\ Applied =>
              /\ last.log[1] = <<"BEGIN">>
              /\ last.log[2] = TableExistsQuery(TableName)
              /\ last.log[3] = ColumnsQuery(TableName)
              /\ last.log[Len(last.log)] = <<"COMMIT">>

C18_Witness ==
    /\ Applied
    /\ kind \in {"PostgresDb", "MySQLDb"}
    /\ Len(AddedColumns(last.log)) > 1
    /\ Len(IndexStatements(last.log)) > Len(INDEXED_COLUMNS)
    /\ Issued(last.log, BackfillUpdate(TableName)[1])
    /\ Issued(last.log, "COMMIT")

\* C19: when a statement of an invocation fails, it is the last statement
\* of that invocation and occurs once in its log; the log ends with that
\* statement, the rollback and then the dispatcher's error log; the
\* invocation commits nothing, leaves the table as it found it, and the
\* dispatcher raises.  A call raises only through a failed statement.
C19_FailurePath ==
    /\ (last.op # "none" /\ last.failed_at # 0) =>
          LET n == Len(last.log)
          IN /\ last.raised
             /\ n >= 4
             /\ last.log[n] = <<"log_error">>
             /\ last.log[n - 1] = <<"ROLLBACK">>
             /\ IsStatement(last.log[n - 2])
             /\ StatementCount(last.log) = last.failed_at
             /\ \A i \in 1..(n - 3) : last.log[i] # last.log[n - 2]
             /\ CountIssued(last.log, "ROLLBACK") = 1
             /\ CountIssued(last.log, "log_error") = 1
             /\ ~Issued(last.log, "COMMIT")
             /\ db = last.pre
    /\ last.raised => last.failed_at # 0

C19_Witness ==
    /\ ApplyRan
    /\ last.raised
    /\ last.failed_at > 3
    /\ Len(AddedColumns(last.log)) > 1
    /\ last.log[Len(last.log) - 2][1] = "CREATE INDEX IF NOT EXISTS"
    /\ db = last.pre

\* Both invocations of the race have ended
RaceOver == \A p \in Procs : race.proc[p].pc = "done"

\* Invocation p has a step to take: it has not ended, and its next
\* statement does not wait for the lock another transaction holds
CanStep(p) ==
    /\ race.proc[p].pc # "done"
    /\ \/ race.proc[p].pc = "commit"
       \/ ~IsWrite(Pending(kind, race.proc[p]))
       \/ race.lock \in {"none", p}

\* Table d has the target columns and nothing else beside those it had, and
\* one index per indexed column, each under its own name
NoDuplicate(d) ==
    /\ d.cols = BaseColumns \cup ColumnNames
    /\ \A c \in IndexedColumnSet : Cardinality({i \in d.idx : i[2] = c}) = 1
    /\ \A i, j \in d.idx : i[1] = j[1] => i = j

\* C20: two apply invocations interleaved statement by statement on the same
\* existing table.  An invocation that ends has either committed or raised
\* on a statement the engine rejected, and one that raises leaves the
\* committed table as it was; while an invocation is under way one of them
\* can take a step; and once both have ended at least one has committed and
\* the table has all eleven target columns and all four target indexes,
\* none of them twice.
C20_RacingApplies ==
    [][/\ \A p \in Procs :
            (race.proc[p].pc # "done" /\ race'.proc[p].pc = "done") =>
                /\ race'.proc[p].out.raised =>
                      /\ race'.proc[p].out.sql_error
                      /\ ~Issued(race'.proc[p].out.log, "COMMIT")
                      /\ db' = db
                /\ ~race'.proc[p].out.raised =>
                      Issued(race'.proc[p].out.log, "COMMIT")
       /\ ~RaceOver' => \E p \in Procs : CanStep(p)'
       /\ RaceOver' =>
            /\ \E p \in Procs : ~race'.proc[p].out.raised
            /\ AllColumns(db')
            /\ AllIndexes(db')
            /\ NoDuplicate(db')]_vars

C20_Witness ==
    /\ RaceOver
    /\ race.proc["first"].out.raised
    /\ race.proc["first"].out.sql_error
    /\ ~race.proc["second"].out.raised
    /\ race.proc["second"].out.ret
    /\ Len(AddedColumns(race.proc["second"].out.log)) > 1
    /\ AllColumns(db)
    /\ AllIndexes(db)

\* The log of invocation me so far
LogOf(me) == IF me.pc = "done" THEN me.out.log ELSE me.s.log

\* C21: at every step of an apply or revert invocation, with or without a
\* failing statement: the log opens with the one BEGIN of the session; it
\* holds a COMMIT or a ROLLBACK exactly when the invocation has ended, one
\* only, with no statement after it; and the committed table, which is what
\* a concurrent reader sees, is either the table the invocation started from
\* or, once the invocation has committed, the table with all of its changes:
\* every target column and index after an apply, none after a revert.
C21_SingleTransaction ==
    \A p \in DOMAIN race.proc :
        LET me == race.proc[p]
            log == LogOf(me)
            ends == {i \in 1..Len(log) : log[i][1] \in {"COMMIT", "ROLLBACK"}}
        IN /\ log[1] = <<"BEGIN">>
           /\ CountIssued(log, "BEGIN") = 1
           /\ Cardinality(ends) = IF me.pc = "done" THEN 1 ELSE 0
           /\ \A i \in ends :
                 \/ i = Len(log)
                 \/ i + 1 = Len(log) /\ log[i + 1] = <<"log_error">>
           /\ \/ db = last.pre
              \/ /\ me.pc = "done"
                 /\ ~me.out.raised
                 /\ Issued(log, "COMMIT")
                 /\ p = "apply" => AllColumns(db) /\ AllIndexes(db)
                 /\ p = "revert" =>
                       TargetColumnsOf(db) = {} /\ TargetIndexesOf(db) = {}

C21_Witness ==
    /\ "revert" \in DOMAIN race.proc
    /\ race.lock = "revert"
    /\ race.proc["revert"].pc = "dropcol"
    /\ TargetIndexesOf(db) # {}
    /\ TargetIndexesOf(race.proc["revert"].s.db) = {}
    /\ race.proc["revert"].s.db.cols # db.cols
    /\ TargetColumnsOf(race.proc["revert"].s.db) # {}
    /\ db = last.pre

\* The kind of the other scheduling model for the same engine
Twin(k) ==
    CASE k = "PostgresDb" -> "AsyncPostgresDb"
      [] k = "AsyncPostgresDb" -> "PostgresDb"
      [] k = "SqliteDb" -> "AsyncSqliteDb"
      [] OTHER -> "SqliteDb"

TwinKinds == {"PostgresDb", "AsyncPostgresDb", "SqliteDb", "AsyncSqliteDb"}

\* The call of the other scheduling model that corresponds to entry point op
\* on a handle of kind k: same table d, same failing statement
TwinCall(op, k, d, fail) ==
    CASE op = "up" -> async_up(Twin(k), "knowledge", TableName, d, fail)
      [] op = "async_up" -> up(Twin(k), "knowledge", TableName, d, fail)
      [] op = "down" -> async_down(Twin(k), "knowledge", TableName, d, fail)
      [] OTHER -> down(Twin(k), "knowledge", TableName, d, fail)

\* C22: for Postgres and SQLite, the entry point of the other scheduling
\* model, called on the table the last call found and with the same
\* statement failing, issues the same log of statements, returns the same
\* boolean or raises at the same statement, and leaves the same table,
\* columns, indexes and rows.
C22_SyncAsyncEquivalent ==
    (ExecutorRan /\ kind \in TwinKinds) =>
        LET r == TwinCall(last.op, kind, last.pre, last.failed_at)
        IN /\ r.log = last.log
           /\ r.raised = last.raised
           /\ r.ret = last.ret
           /\ r.failed_at = last.failed_at
           /\ r.sql_error = last.sql_error
           /\ r.db = db

C22_Witness ==
    /\ Applied
    /\ kind = "AsyncPostgresDb"
    /\ last.ret
    /\ Len(AddedColumns(last.log)) > 1
    /\ TargetIndexesOf(last.pre) = {}
    /\ AllIndexes(db)
    /\ Len(last.pre.rows) > 0

\* C23: an apply call that completes on an existing table issues the
\* backfill UPDATE exactly when it returns true; if source_type was missing
\* from the table it found, it adds the column and returns true; and an
\* apply call that returns false, on any table and for any role, has issued
\* no UPDATE and left every row as it was.
C23_BackfillIffTrue ==
    /\ Applied =>
          /\ Issued(last.log, BackfillUpdate(TableName)[1]) <=> last.ret
          /\ "source_type" \notin last.pre.cols =>
                /\ \E i \in 1..Len(AddedColumns(last.log)) :
                      AddedColumns(last.log)[i] = "source_type"
                /\ last.ret
    /\ (last.op \in ApplyOps /\ ~last.raised /\ ~last.ret) =>
          /\ ~Issued(last.log, BackfillUpdate(TableName)[1])
          /\ db.rows = last.pre.rows

C23_Witness ==
    /\ Applied
    /\ kind = "SqliteDb"
    /\ ~last.ret
    /\ db.idx # last.pre.idx
    /\ \E i \in 1..Len(db.rows) : db.rows[i] = NULL

\* Indexes of table d over a column that table e no longer has
OverDroppedColumn(d, e) == {i \in d.idx : i[2] \in d.cols \ e.cols}

\* C24 (as claimed): whatever apply and revert calls were made, the columns
\* the table had before this revision are all present, and each call kept
\* every column and index that is not a target: an apply call removed no
\* column and no index, and a revert call removed only target columns and
\* target indexes.
C24_OnlyTargetsRemoved ==
    /\ BaseColumns \subseteq db.cols
    /\ last.op \in ApplyOps =>
          last.pre.cols \subseteq db.cols /\ last.pre.idx \subseteq db.idx
    /\ last.op \in RevertOps =>
          /\ last.pre.cols \ db.cols \subseteq ColumnNames
          /\ last.pre.idx \ db.idx \subseteq TargetIndexesOf(last.pre)

\* C24 (amended): whatever apply and revert calls were made, the columns the
\* table had before this revision are all present and no row was added or
\* removed; an apply call removed no column and no index; a revert call
\* removed only target columns, target indexes and the other indexes over a
\* target column it dropped; and an index over a column the table had before
\* this revision is still there.
C24_FrameWithCascade ==
    /\ BaseColumns \subseteq db.cols
    /\ Len(db.rows) = Len(trip.start.rows)
    /\ {i \in trip.start.idx : i[2] \in BaseColumns} \subseteq db.idx
    /\ last.op \in ApplyOps =>
          last.pre.cols \subseteq db.cols /\ last.pre.idx \subseteq db.idx
    /\ last.op \in RevertOps =>
          /\ last.pre.cols \ db.cols \subseteq ColumnNames
          /\ last.pre.idx \ db.idx \subseteq
                TargetIndexesOf(last.pre) \cup OverDroppedColumn(last.pre, db)

C24_Witness ==
    /\ RevertRan
    /\ ~last.raised
    /\ UserIndexes \subseteq last.pre.idx
    /\ AllColumns(last.pre)
    /\ AllIndexes(last.pre)
    /\ db.cols = BaseColumns
    /\ db.idx = {i \in UserIndexes : i[2] \in BaseColumns}

\* C25 (as claimed): every column an apply call adds to the table is a
\* declared field of KnowledgeRow.
C25_ColumnsAreFields ==
    Applied =>
        \A i \in 1..Len(AddedColumns(last.log)) :
            AddedColumns(last.log)[i] \in KnowledgeRowFields

====
